---- MODULE Spec2Model ----
(***************************************************************************)
(* A model of the agrabar status bar (src/src/main.rs, src/src/volume.rs): *)
(* the closures main() hands to the bar's widgets, the click actions it    *)
(* registers, and the ALSA mixer operations of the volume module.          *)
(*                                                                         *)
(* Rust semantics the model relies on:                                     *)
(*  - Result::unwrap / Option::unwrap panic on Err / None;                 *)
(*  - Result::unwrap_or(()) discards an Err, it does not catch a panic;    *)
(*  - AtomicBool::load panics when given Ordering::Release or AcqRel, and  *)
(*    AtomicBool::store panics when given Ordering::Acquire or AcqRel      *)
(*    (std::sync::atomic: "there is no such thing as a release load" /     *)
(*    "an acquire store");                                                 *)
(*  - f64::round rounds half away from zero; `as u8` saturates.            *)
(* A panic ends the thread it happens in.  Whether it also ends the        *)
(* process depends on the panic strategy of the build and on the thread    *)
(* it unwinds; both outcomes are kept (aborted' \in BOOLEAN).              *)
(***************************************************************************)
EXTENDS Integers, Sequences, FiniteSets, TLC

VARIABLES
    battery_warned,   \* main.rs:155  Arc<AtomicBool>
    notifications,    \* titles of the desktop notifications shown so far
    hist,             \* battery polls that reached the alert condition
    seg,              \* latest Segment stored for each polled source
    status,           \* per thread: "ready", "blocked" or "panicked"
    last,             \* the most recent poll or click and how it ended
    aborted,          \* the process has terminated
    ticks,            \* timer ticks and click events handled so far
    mixer,            \* the ALSA "Master" element of the default mixer
    oplog,            \* calls of volume::add / volume::mute made so far
    sinks,            \* the sound server: default device, streams' devices
    devlog,           \* calls of volume::menu made so far
    clock,            \* time elapsed, in seconds
    due,              \* per poll thread: when its sleep ends
    inflight,         \* per source: closure calls begun and not yet ended
    polls,            \* per source: closure calls begun so far
    queue,            \* render requests sent and not yet received
    renderers,        \* renders between composing and writing their line
    composed,         \* the line the render in progress composed
    line              \* the last line written to standard output

vars == <<battery_warned, notifications, hist, seg, status, last, aborted,
          ticks, mixer, oplog, sinks, devlog, clock, due, inflight, polls,
          queue, renderers, composed, line>>

deviceVars == <<sinks, devlog>>

schedVars == <<clock, due, inflight, polls, queue, renderers, composed, line>>

batteryVars == <<battery_warned, notifications, hist>>

mixerVars == <<mixer, oplog>>

(***************************************************************************)
(* Bounds                                                                  *)
(***************************************************************************)
MaxPolls == 4      \* battery polls recorded in hist
MaxOps == 2        \* mixer calls recorded in oplog
MaxTicks == 3      \* timer ticks and click events explored
MaxMenus == 1      \* calls of volume::menu recorded in devlog
MaxTime == 4       \* seconds of scheduling explored

(***************************************************************************)
(* Segments (the value of bfmt![...])                                      *)
(***************************************************************************)
NoColor == "none"

Segment(text, fg, clicks) == [text |-> text, fg |-> fg, clicks |-> clicks]

Click(button, name) == <<button, name>>

\* bfmt![text[""]]
EmptySegment == Segment("", NoColor, {})

\* What a closure call ends in: a Segment returned, or a panic.
Returned(s) == [panic |-> FALSE, seg |-> s]

Panicked == [panic |-> TRUE, seg |-> EmptySegment]

\* A probe result: Ok(v) or Err(e).
Ok(v, none) == [ok |-> TRUE, v |-> v, err |-> none]

Err(e, none) == [ok |-> FALSE, v |-> none, err |-> e]

ErrMsgs == {"Permission denied", "Input/output error"}

\* str.split(':').nth(n).unwrap_or(default), on the fields of the string
Nth(fields, n, default) == IF Len(fields) > n THEN fields[n + 1] ELSE default

Abs(x) == IF x < 0 THEN -x ELSE x

\* the real quotient num/den rounded half away from zero (f64::round)
RoundHalfAway(num, den) ==
    LET q == (2 * Abs(num) + den) \div (2 * den)
    IN  IF num < 0 THEN -q ELSE q

\* `x as u8` for a rounded float: saturating
AsU8(x) == IF x < 0 THEN 0 ELSE IF x > 255 THEN 255 ELSE x

(***************************************************************************)
(* The widgets of main(), in the order of their .add calls                 *)
(***************************************************************************)
Widgets ==
    <<"music", "volume", "ibus", "disk", "network", "load", "memory",
      "temperature", "battery", "backlight", "clock", "flair">>

Sources == {Widgets[i] : i \in 1..Len(Widgets)}

\* Text::new(bfmt![text["..."]])
FlairSegment == Segment("(flair)", NoColor, {})

(***************************************************************************)
(* The Music and Volume closures of main()                                 *)
(***************************************************************************)
\* the song handed to the Music closure: playback is None or Some(playing)
Songs ==
    [playback : {"none", "playing", "paused"}, artist : {"Artist"},
     title : {"Title"}]

MusicClicks ==
    {Click("Left", "mus_prev"), Click("Middle", "mus_toggle"),
     Click("Right", "mus_next")}

MusicClosure(song) ==
    IF song.playback # "none"
    THEN LET glyph == IF song.playback = "playing" THEN "play" ELSE "pause"
         IN  Returned(Segment(glyph \o "  " \o song.artist \o " - "
                                \o song.title, "#9090ff", MusicClicks))
    ELSE Returned(EmptySegment)

\* the state handed to the Volume closure: volume.volume * 100.0 in tenths
\* of a percent (none of them a half), and volume.muted
VolumeStates == [volume : {0, 296, 300, 598, 1000}, muted : BOOLEAN]

\* volume::icon(vol)
icon(vol) ==
    CASE vol \in 0..29 -> "vol0"
      [] vol \in 30..59 -> "vol1"
      [] OTHER -> "vol2"

VolumeClicks ==
    {Click("ScrollDown", "vol_down"), Click("ScrollUp", "vol_up"),
     Click("Middle", "vol_mute"), Click("Left", "device_menu")}

VolumeClosure(volume) ==
    LET text == IF volume.muted
                THEN "mute MUTE"
                ELSE icon(AsU8(volume.volume \div 10)) \o " "
                       \o ToString(RoundHalfAway(volume.volume, 10)) \o "%"
    IN  Returned(Segment(text, "#9090ff", VolumeClicks))

(***************************************************************************)
(* The Periodic closures of main()                                         *)
(***************************************************************************)
\* stdout of `ibus engine`, as its ':'-separated fields
IbusOutputs == {<<"xkb", "us", "", "eng">>, <<"">>}

IbusResults ==
    {Ok(f, "") : f \in IbusOutputs} \cup {Err(e, <<>>) : e \in ErrMsgs}

\* the ibus closure with the probe result unwrapped instead of matched
IbusClosureUnwrap(output) ==
    IF ~output.ok
    THEN Panicked
    ELSE Returned(Segment("kbd " \o Nth(output.v, 1, "N/A"), NoColor, {}))

IbusClosure(output) ==
    IF ~output.ok
    THEN Returned(EmptySegment)
    ELSE Returned(Segment("kbd " \o Nth(output.v, 1, "N/A"), NoColor, {}))

\* mount_at("/"): the available space, already formatted by to_string()
DiskResults == {Ok("12 GB", "")} \cup {Err(e, "") : e \in ErrMsgs}

DiskClosure(fs) ==
    IF ~fs.ok
    THEN Panicked
    ELSE Returned(Segment("disk " \o fs.v, "#cccccc", {}))

\* stdout of `nmcli --terse connection show --active` as ':'-separated
\* fields, and of `nmcli networking connectivity check` without its
\* trailing whitespace
ConnectionOutputs == {<<"Home", "uuid", "802-11-wireless", "wlan0">>, <<"">>}

ConnectivityOutputs == {"full", "limited", ""}

ConnectionResults ==
    {Ok(f, "") : f \in ConnectionOutputs} \cup {Err("Input/output error", <<>>)}

ConnectivityResults ==
    {Ok(c, "") : c \in ConnectivityOutputs} \cup {Err("Input/output error", "")}

\* the nmcli helper: .unwrap_or_default() turns a failure into ""
NmcliFields(res) == IF res.ok THEN res.v ELSE <<"">>

NmcliText(res) == IF res.ok THEN res.v ELSE ""

NetworkClosure(conn, check) ==
    LET connection == NmcliFields(conn)
        connectivity == NmcliText(check)
        st == CASE connectivity = "full" -> ""
                [] connectivity \in {"portal", "limited", "none"} -> "!"
                [] OTHER -> "?"
        kind == Nth(connection, 2, "")
        glyph == CASE Len(connection) <= 2 -> "nonet"
                   [] kind = "802-3-ethernet" -> "eth"
                   [] kind = "802-11-wireless" -> "wifi"
                   [] OTHER -> "nonet"
        first == connection[1]
        name == IF first = "" THEN "Disconnected" ELSE first
        color == IF first = "" THEN "#BB5555" ELSE "#99ee99"
    IN  Returned(Segment(glyph \o " " \o name \o st, color, {}))

\* load_average(): load.one formatted with {:.2}
LoadResults == {Ok("0.42", "")} \cup {Err(e, "") : e \in ErrMsgs}

LoadClosure(load) ==
    IF ~load.ok
    THEN Panicked
    ELSE Returned(Segment("load " \o load.v, "#cc9999", {}))

\* memory(): free gigabytes formatted with {:.1}
MemoryResults == {Ok("3.1", "")} \cup {Err(e, "") : e \in ErrMsgs}

MemoryClosure(memory) ==
    IF ~memory.ok
    THEN Panicked
    ELSE Returned(Segment("mem " \o memory.v \o " G", "#ffc300", {}))

\* cpu_temp() in whole degrees
TempResults == {Ok(t, 0) : t \in {45, 85}} \cup {Err(e, 0) : e \in ErrMsgs}

TempIcon(t) ==
    CASE t \in 0..59 -> "t0"
      [] t \in 60..69 -> "t1"
      [] t \in 70..79 -> "t2"
      [] t \in 80..89 -> "t3"
      [] OTHER -> "t4"

TempClosure(temp) ==
    IF ~temp.ok
    THEN Panicked
    ELSE Returned(Segment(TempIcon(temp.v) \o " " \o ToString(temp.v) \o " C",
                          "#10ff10", {}))

(***************************************************************************)
(* The battery closure and its alert flag                                  *)
(***************************************************************************)
\* on_ac_power()
AcResults == {Ok(c, FALSE) : c \in BOOLEAN} \cup {Err("Input/output error", FALSE)}

\* battery_life(): remaining_capacity in thousandths of a full charge
BatteryResults == {Ok(c, 0) : c \in {50, 104, 105, 1000}} \cup {Err("Input/output error", 0)}

\* the orderings the closure passes to the flag's load and store
LoadOrdering == "Release"

StoreOrdering == "Acquire"

\* AtomicBool::load(order) panics for these orderings
LoadPanics(order) == order \in {"Release", "AcqRel"}

\* AtomicBool::store(v, order) panics for these orderings
StorePanics(order) == order \in {"Acquire", "AcqRel"}

BatteryTitle == "Battery level critical"

\* (battery.remaining_capacity * 100.0).round() as u8
Capacity(thousandths) == AsU8(RoundHalfAway(thousandths, 10))

\* capacity <= 10 && !charging
AlertCondition(capacity, charging) == capacity <= 10 /\ ~charging

BatteryIcon(capacity, charging) ==
    CASE capacity \in 0..19 -> "b0"
      [] capacity \in 20..39 -> "b1"
      [] capacity \in 40..59 -> "b2"
      [] capacity \in 60..79 -> "b3"
      [] capacity \in 80..99 -> "b4"
      [] capacity = 100 /\ charging -> ""
      [] OTHER -> "b4"

BatteryColor(capacity) ==
    CASE capacity \in 0..19 -> "#FF4000"
      [] capacity \in 20..39 -> "#FFAE00"
      [] capacity \in 40..59 -> "#FFF600"
      [] capacity \in 60..79 -> "#A8FF00"
      [] OTHER -> "#50FF00"

BatterySegment(capacity, charging) ==
    Segment((IF charging THEN "ac" ELSE "") \o BatteryIcon(capacity, charging)
                \o " " \o ToString(capacity) \o "%",
            BatteryColor(capacity), {})

\* The result of one call of the battery closure when the flag holds
\* `warned`: whether it panicked, the Segment it returned, the flag
\* afterwards, the notifications it showed, whether it reached the alert
\* condition and the condition's value.
BatteryEnd(panic, s, warned, shown, evaluated, cond) ==
    [panic |-> panic, seg |-> s, warned |-> warned, shown |-> shown,
     evaluated |-> evaluated, cond |-> cond]

\* the battery closure with its probes unwrapped instead of matched
BatteryClosureUnwrap(ac, battery, showOk, warned) ==
    IF ~ac.ok \/ ~battery.ok
    THEN BatteryEnd(TRUE, EmptySegment, warned, <<>>, FALSE, FALSE)
    ELSE BatteryEnd(TRUE, EmptySegment, warned, <<>>, TRUE,
                    AlertCondition(Capacity(battery.v), ac.v))

BatteryClosure(ac, battery, showOk, warned) ==
    IF ~ac.ok \/ ~battery.ok
    THEN BatteryEnd(FALSE, EmptySegment, warned, <<>>, FALSE, FALSE)
    ELSE
      LET charging == ac.v
          capacity == Capacity(battery.v)
          cond == AlertCondition(capacity, charging)
          s == BatterySegment(capacity, charging)
      IN  IF cond
          THEN IF LoadPanics(LoadOrdering)
               THEN BatteryEnd(TRUE, EmptySegment, warned, <<>>, TRUE, cond)
               ELSE IF ~warned
               THEN IF ~showOk
                    THEN BatteryEnd(TRUE, EmptySegment, warned, <<>>, TRUE, cond)
                    ELSE IF StorePanics(StoreOrdering)
                    THEN BatteryEnd(TRUE, EmptySegment, warned,
                                    <<BatteryTitle>>, TRUE, cond)
                    ELSE BatteryEnd(FALSE, s, TRUE, <<BatteryTitle>>, TRUE, cond)
               ELSE BatteryEnd(FALSE, s, warned, <<>>, TRUE, cond)
          ELSE IF StorePanics(StoreOrdering)
               THEN BatteryEnd(TRUE, EmptySegment, warned, <<>>, TRUE, cond)
               ELSE BatteryEnd(FALSE, s, FALSE, <<>>, TRUE, cond)

(***************************************************************************)
(* The backlight closure                                                   *)
(***************************************************************************)
\* Backlight::get(): the brightness in percent, or an io::Error
BacklightResults ==
    {Ok(b, "") : b \in {"40"}}
        \cup {Err(e, "") : e \in ErrMsgs \cup {"NotFound"}}

BacklightClicks ==
    {Click("ScrollUp", "bright_up"), Click("ScrollDown", "bright_down")}

BacklightClosure(res) ==
    IF res.ok
    THEN Returned(Segment("sun " \o res.v \o "%", "#ffff55", BacklightClicks))
    ELSE IF res.err = "NotFound"
    THEN Returned(EmptySegment)
    ELSE Returned(Segment("ERROR: " \o res.err, NoColor, {}))

(***************************************************************************)
(* The poll threads: each source's closure is called on its own thread,    *)
(* and the Segment it returns replaces the source's stored Segment.        *)
(***************************************************************************)
Polled == {"music", "volume", "ibus", "disk", "network", "load", "memory",
           "temperature", "battery", "backlight"}

Threads == Polled \cup {"dispatch"}

\* the record of a poll: the source, whether its probe failed and with what
\* message, whether the closure panicked, and the Segment it returned
LastPoll(s, failed, err, out) ==
    [kind |-> "poll", src |-> s, failed |-> failed, err |-> err,
     panic |-> out.panic, out |-> out.seg]

CanPoll(s) == ~aborted /\ status[s] = "ready" /\ ticks < MaxTicks

\* A panic ends the calling thread; the stored Segment is not replaced.
PanicIn(t) ==
    /\ status' = [status EXCEPT ![t] = "panicked"]
    /\ aborted' \in BOOLEAN

\* One tick of source s: the closure ended in `out`.
Store(s, out, failed, err) ==
    /\ last' = LastPoll(s, failed, err, out)
    /\ ticks' = ticks + 1
    /\ IF out.panic
       THEN PanicIn(s) /\ seg' = seg
       ELSE /\ seg' = [seg EXCEPT ![s] = out.seg]
            /\ UNCHANGED <<status, aborted>>

PollMusic ==
    /\ CanPoll("music")
    /\ \E song \in Songs : Store("music", MusicClosure(song), FALSE, "")
    /\ UNCHANGED <<deviceVars, schedVars, batteryVars, mixerVars>>

PollVolume ==
    /\ CanPoll("volume")
    /\ \E volume \in VolumeStates :
         Store("volume", VolumeClosure(volume), FALSE, "")
    /\ UNCHANGED <<deviceVars, schedVars, batteryVars, mixerVars>>

PollIbus ==
    /\ CanPoll("ibus")
    /\ \E output \in IbusResults :
         Store("ibus", IbusClosure(output), ~output.ok, output.err)
    /\ UNCHANGED <<deviceVars, schedVars, batteryVars, mixerVars>>

PollDisk ==
    /\ CanPoll("disk")
    /\ \E fs \in DiskResults :
         Store("disk", DiskClosure(fs), ~fs.ok, fs.err)
    /\ UNCHANGED <<deviceVars, schedVars, batteryVars, mixerVars>>

PollNetwork ==
    /\ CanPoll("network")
    /\ \E conn \in ConnectionResults, check \in ConnectivityResults :
         Store("network", NetworkClosure(conn, check),
               ~conn.ok \/ ~check.ok,
               IF ~conn.ok THEN conn.err ELSE check.err)
    /\ UNCHANGED <<deviceVars, schedVars, batteryVars, mixerVars>>

PollLoad ==
    /\ CanPoll("load")
    /\ \E load \in LoadResults :
         Store("load", LoadClosure(load), ~load.ok, load.err)
    /\ UNCHANGED <<deviceVars, schedVars, batteryVars, mixerVars>>

PollMemory ==
    /\ CanPoll("memory")
    /\ \E memory \in MemoryResults :
         Store("memory", MemoryClosure(memory), ~memory.ok, memory.err)
    /\ UNCHANGED <<deviceVars, schedVars, batteryVars, mixerVars>>

PollTemperature ==
    /\ CanPoll("temperature")
    /\ \E temp \in TempResults :
         Store("temperature", TempClosure(temp), ~temp.ok, temp.err)
    /\ UNCHANGED <<deviceVars, schedVars, batteryVars, mixerVars>>

PollBacklight ==
    /\ CanPoll("backlight")
    /\ \E res \in BacklightResults :
         Store("backlight", BacklightClosure(res), ~res.ok, res.err)
    /\ UNCHANGED <<deviceVars, schedVars, batteryVars, mixerVars>>

PollBattery ==
    /\ CanPoll("battery")
    /\ Len(hist) < MaxPolls
    /\ \E ac \in AcResults, battery \in BatteryResults, showOk \in BOOLEAN :
         LET end == BatteryClosure(ac, battery, showOk, battery_warned)
         IN  /\ Store("battery", [panic |-> end.panic, seg |-> end.seg],
                      ~ac.ok \/ ~battery.ok,
                      IF ~ac.ok THEN ac.err ELSE battery.err)
             /\ battery_warned' = end.warned
             /\ notifications' = notifications \o end.shown
             /\ hist' = IF end.evaluated
                        THEN Append(hist, [cond |-> end.cond,
                                           notified |-> end.shown # <<>>,
                                           panic |-> end.panic,
                                           showOk |-> showOk,
                                           before |-> battery_warned,
                                           after |-> end.warned])
                        ELSE hist
    /\ UNCHANGED <<deviceVars, schedVars, mixerVars>>

(***************************************************************************)
(* The volume module: volume::add and volume::mute on the ALSA mixer.      *)
(* The repository holds the module twice, inline in main.rs and as         *)
(* volume.rs; the two differ in how a missing "Master" element is handled. *)
(***************************************************************************)
Channels == {"FrontLeft", "FrontRight"}

Revisions == {"main.rs", "volume.rs"}

\* where a mixer call can fail: Mixer::new, find_selem, the read of the
\* front-left channel, the write to all channels
Faults == {"none", "open", "selem", "read", "write"}

\* the playback volume ranges (min, max) and the diffs explored
Ranges == {<<0, 65536>>, <<0, 29>>, <<-10, 0>>}

Diffs == {-128, -100, -50, -5, 5, 50, 100, 127}

Min(a, b) == IF a < b THEN a ELSE b

Max(a, b) == IF a > b THEN a ELSE b

\* the clamp without its upper limit: new_volume.max(min)
ClampLowerOnly(x, lo, hi) == Max(x, lo)

\* new_volume.max(min).min(max)
Clamp(x, lo, hi) == Min(Max(x, lo), hi)

\* The pairs (max - min, |diff|) of Ranges and Diffs for which diff percent
\* of the range is an exact half and the f64 product (range * 0.01) * diff
\* falls below it: 29 * 0.01 * 50 = 14.499999999999998.  For every other
\* pair of Ranges and Diffs the f64 product rounds as the exact quotient.
F64BelowTie == {<<29, 50>>}

\* the step rounded half up, (x + 0.5).floor(), instead of half away from zero
StepDeltaHalfUp(range, diff) == (range * diff + 50) \div 100

\* (step * f64::from(diff)).round() as i64, with step = (max - min) * 0.01
StepDelta(range, diff) ==
    IF <<range, Abs(diff)>> \in F64BelowTie
    THEN (IF diff < 0 THEN -1 ELSE 1) * ((range * Abs(diff)) \div 100)
    ELSE RoundHalfAway(range * diff, 100)

\* the volume moved by the size of diff, whatever its sign
NewVolumeUnsigned(m, diff) ==
    Clamp(m.vol["FrontLeft"] + StepDelta(m.max - m.min, Abs(diff)),
          m.min, m.max)

\* the value volume::add writes to every channel
NewVolume(m, diff) ==
    Clamp(m.vol["FrontLeft"] + StepDelta(m.max - m.min, diff), m.min, m.max)

MixerEnd(res, m) == [res |-> res, mixer |-> m]

\* volume::add(diff)
add(m, diff, fault, rev) ==
    CASE fault = "open" -> MixerEnd("err", m)
      [] fault = "selem" ->
            MixerEnd(IF rev = "main.rs" THEN "panic" ELSE "err", m)
      [] fault = "read" -> MixerEnd("err", m)
      [] fault = "write" -> MixerEnd("err", m)
      [] OTHER ->
            MixerEnd("ok", [m EXCEPT !.vol = [c \in Channels |-> NewVolume(m, diff)]])

\* a mute that only ever mutes
NewSwitchOff(m) == 0

\* the switch value volume::mute writes to every channel
NewSwitch(m) == IF m.sw["FrontLeft"] = 0 THEN 1 ELSE 0

\* volume::mute()
mute(m, fault) ==
    CASE fault = "open" -> MixerEnd("err", m)
      [] fault = "selem" -> MixerEnd("panic", m)
      [] fault = "read" -> MixerEnd("err", m)
      [] fault = "write" -> MixerEnd("err", m)
      [] OTHER ->
            MixerEnd("ok", [m EXCEPT !.sw = [c \in Channels |-> NewSwitch(m)]])

(***************************************************************************)
(* The volume module: volume::set_device and volume::menu on the sound     *)
(* server (SinkController) and the zenity picker.                          *)
(***************************************************************************)
\* the devices list_devices() reports: name (device id) and description
DeviceList ==
    <<[name |-> "alsa_speakers", description |-> "Built-in Audio"],
      [name |-> "hdmi", description |-> "HDMI Output"]>>

\* the application streams list_applications() can report
AppIds == {"app1", "app2"}

\* stdout of the picker, as a sequence of whitespace and word tokens
Whitespace == {" ", "\n"}

PickerOutputs ==
    {<<>>, <<"\n">>, <<"hdmi", "\n">>, <<" ", "alsa_speakers", "\n">>}

\* where volume::menu can fail: SinkController::create, Command::spawn,
\* list_devices, a writeln! to the picker's stdin, wait_with_output, and
\* list_applications inside set_device
MenuFaults == {"none", "create", "spawn", "list_devices", "write", "wait",
               "list_applications"}

\* what the sound server and the notification daemon answer during one
\* call: set_default_device ("true", "false" or "err"), move_app_by_name
\* per stream, Notification::show per notification; one call meets either
\* a failing system call or failing answers, and the revisions differ in
\* list_applications only
MenuEnvs ==
    {e \in [fault : MenuFaults, output : PickerOutputs,
            setRes : {"true", "false", "err"},
            moveOk : [AppIds -> BOOLEAN],
            showOk : [{"default"} \cup AppIds -> BOOLEAN],
            rev : Revisions] :
        /\ e.fault # "none" =>
              /\ e.setRes = "true"
              /\ \A a \in AppIds : e.moveOk[a]
              /\ \A n \in DOMAIN e.showOk : e.showOk[n]
        /\ e.fault # "list_applications" => e.rev = "volume.rs"}

DefaultFalseTitle == "Couldn't set new device"

DefaultErrTitle == "Error setting default device"

MoveErrTitle == "Error changing sink for applicaiton"

\* The state of a set_device call: how it ended, the sound server, the
\* notifications shown, the streams whose move was attempted, and the
\* number of failed server calls.
DeviceEnd(res, s, shown, attempted, failures) ==
    [res |-> res, sinks |-> s, shown |-> shown, attempted |-> attempted,
     failures |-> failures]

RECURSIVE MoveApps(_, _, _, _)
\* for app in list_applications() { move_app_by_name(app.index, name) ... }
MoveApps(apps, name, env, acc) ==
    IF apps = <<>>
    THEN acc
    ELSE LET app == Head(apps)
             tried == [acc EXCEPT !.attempted = @ \cup {app}]
         IN  IF env.moveOk[app]
             THEN MoveApps(Tail(apps), name, env,
                           [tried EXCEPT !.sinks.streams[app] = name])
             ELSE IF env.showOk[app]
             THEN MoveApps(Tail(apps), name, env,
                           [tried EXCEPT !.shown = Append(@, MoveErrTitle),
                                         !.failures = @ + 1])
             ELSE [tried EXCEPT !.res = "err", !.failures = @ + 1]

\* volume::set_device(controller, name)
set_device(s, name, env) ==
    LET first ==
          CASE env.setRes = "true" ->
                 DeviceEnd("ok", [s EXCEPT !.default = name], <<>>, {}, 0)
            [] env.setRes = "false" ->
                 IF env.showOk["default"]
                 THEN DeviceEnd("ok", s, <<DefaultFalseTitle>>, {}, 1)
                 ELSE DeviceEnd("err", s, <<>>, {}, 1)
            [] OTHER ->
                 IF env.showOk["default"]
                 THEN DeviceEnd("ok", s, <<DefaultErrTitle>>, {}, 1)
                 ELSE DeviceEnd("err", s, <<>>, {}, 1)
    IN  IF first.res = "err"
        THEN first
        ELSE IF env.fault = "list_applications"
        THEN [first EXCEPT !.res = IF env.rev = "main.rs" THEN "panic"
                                                         ELSE "err"]
        ELSE MoveApps(s.apps, name, env, first)

RECURSIVE TrimStart(_)
TrimStart(tokens) ==
    IF tokens # <<>> /\ Head(tokens) \in Whitespace
    THEN TrimStart(Tail(tokens))
    ELSE tokens

RECURSIVE TrimEnd(_)
TrimEnd(tokens) ==
    IF tokens # <<>> /\ tokens[Len(tokens)] \in Whitespace
    THEN TrimEnd(SubSeq(tokens, 1, Len(tokens) - 1))
    ELSE tokens

\* a trim that strips nothing
TrimNothing(tokens) == tokens

\* str::trim
Trim(tokens) == TrimEnd(TrimStart(tokens))

RECURSIVE Concat(_)
\* the string a sequence of tokens spells
Concat(tokens) ==
    IF tokens = <<>> THEN "" ELSE Head(tokens) \o Concat(Tail(tokens))

RECURSIVE Lines(_)
\* the lines written to the picker: name, then description, per device
Lines(devices) ==
    IF devices = <<>>
    THEN <<>>
    ELSE <<Head(devices).name, Head(devices).description>>
             \o Lines(Tail(devices))

\* The state of a menu call: how it ended, the sound server, the
\* notifications shown, the pickers spawned, the devices listed, the lines
\* fed to the picker, the names set_device was called with, and the streams
\* and failures of set_device.
MenuEnd(res, s, spawns, listed, fed) ==
    [res |-> res, sinks |-> s, shown |-> <<>>, spawns |-> spawns,
     listed |-> listed, fed |-> fed, setCalls |-> <<>>, attempted |-> {},
     failures |-> 0]

\* volume::menu()
menu(s, env) ==
    LET listed == IF env.fault = "list_devices" THEN <<>> ELSE DeviceList
        new_device == Concat(Trim(env.output))
    IN  CASE env.fault = "create" -> MenuEnd("err", s, 0, <<>>, <<>>)
          [] env.fault = "spawn" -> MenuEnd("err", s, 0, <<>>, <<>>)
          [] env.fault = "write" /\ listed # <<>> ->
                 MenuEnd("err", s, 1, listed, <<>>)
          [] env.fault = "wait" -> MenuEnd("err", s, 1, listed, Lines(listed))
          [] OTHER ->
                 IF new_device = ""
                 THEN MenuEnd("ok", s, 1, listed, Lines(listed))
                 ELSE LET end == set_device(s, new_device, env)
                      IN  [MenuEnd(end.res, end.sinks, 1, listed, Lines(listed))
                             EXCEPT !.shown = end.shown,
                                    !.setCalls = <<new_device>>,
                                    !.attempted = end.attempted,
                                    !.failures = end.failures]

\* the registrations without the one of device_menu
RegisteredNoMenu ==
    <<"mus_toggle", "mus_prev", "mus_next", "vol_up", "vol_down", "vol_mute",
      "bright_up", "bright_down">>

\* the names main() registers with register_fn, in registration order
Registered == <<"mus_toggle", "mus_prev", "mus_next", "vol_up", "vol_down",
                "vol_mute", "device_menu", "bright_up", "bright_down">>

ActionNames == {Registered[i] : i \in 1..Len(Registered)}

\* the record of a call: a click's action name, or a direct call
LastCall(name, res) ==
    [kind |-> IF name \in ActionNames THEN "click" ELSE "call", src |-> name,
     failed |-> res # "ok", err |-> "", panic |-> res = "panic",
     out |-> EmptySegment]

\* A call ended in `res` on the dispatching thread.
EndCall(name, res) ==
    /\ last' = LastCall(name, res)
    /\ IF res = "panic"
       THEN PanicIn("dispatch")
       ELSE UNCHANGED <<status, aborted>>

CanCall == ~aborted /\ status["dispatch"] = "ready"

\* A call of volume::add(diff) or volume::mute() by `name`.
MixerCall(name, op, diff) ==
    /\ CanCall
    /\ Len(oplog) < MaxOps
    /\ \E fault \in Faults, rev \in Revisions :
         LET end == IF op = "add" THEN add(mixer, diff, fault, rev)
                                  ELSE mute(mixer, fault)
         IN  /\ mixer' = end.mixer
             /\ oplog' = Append(oplog, [op |-> op, diff |-> diff,
                                        res |-> end.res, before |-> mixer,
                                        after |-> end.mixer])
             /\ EndCall(name, end.res)

CallAdd ==
    /\ \E diff \in Diffs : MixerCall("add", "add", diff)
    /\ UNCHANGED <<deviceVars, schedVars, batteryVars, seg, ticks>>

CallMute ==
    /\ MixerCall("mute", "mute", 0)
    /\ UNCHANGED <<deviceVars, schedVars, batteryVars, seg, ticks>>

(***************************************************************************)
(* The registered click actions (register_fn) and their dispatch           *)
(***************************************************************************)
CanDispatch == CanCall /\ ticks < MaxTicks

\* || MPRISMusic::new().play_pause() / prev() / next()
DispatchMusic ==
    /\ CanDispatch
    /\ \E name \in {"mus_toggle", "mus_prev", "mus_next"} : EndCall(name, "ok")
    /\ ticks' = ticks + 1
    /\ UNCHANGED <<deviceVars, schedVars, batteryVars, seg, mixerVars>>

\* || volume::add(5).unwrap_or(()) and || volume::add(-5).unwrap_or(())
DispatchVolume ==
    /\ CanDispatch
    /\ \/ MixerCall("vol_up", "add", 5)
       \/ MixerCall("vol_down", "add", -5)
    /\ ticks' = ticks + 1
    /\ UNCHANGED <<deviceVars, schedVars, batteryVars, seg>>

\* || volume::mute().unwrap_or(())
DispatchMute ==
    /\ CanDispatch
    /\ MixerCall("vol_mute", "mute", 0)
    /\ ticks' = ticks + 1
    /\ UNCHANGED <<deviceVars, schedVars, batteryVars, seg>>

\* || volume::menu().unwrap_or(())
DispatchMenu ==
    /\ CanCall
    /\ Len(devlog) < MaxMenus
    /\ \E env \in MenuEnvs :
         LET end == menu(sinks, env)
         IN  /\ sinks' = end.sinks
             /\ notifications' = notifications \o end.shown
             /\ devlog' = Append(devlog, [env |-> env, before |-> sinks,
                                          end |-> end])
             /\ EndCall("device_menu", end.res)
    /\ UNCHANGED <<schedVars, battery_warned, hist, seg, mixerVars, ticks>>

\* || Backlight::adjust(0.05).unwrap_or(()) and adjust(-0.05)
DispatchBacklight ==
    /\ CanDispatch
    /\ \E name \in {"bright_up", "bright_down"}, res \in {"ok", "err"} :
         EndCall(name, res)
    /\ ticks' = ticks + 1
    /\ UNCHANGED <<deviceVars, schedVars, batteryVars, seg, mixerVars>>

(***************************************************************************)
(* The scheduler: every Periodic source sleeps its interval, calls its      *)
(* closure and requests a render; renders compose the line and write it.    *)
(***************************************************************************)
\* the sources scheduled in SpecSched
Timed == {"ibus", "disk", "load", "battery"}

\* Duration::from_secs(n) of each Periodic
Interval(s) ==
    CASE s \in {"ibus", "network", "load", "battery"} -> 1
      [] s \in {"disk", "memory", "temperature"} -> 2

\* the sources whose closure waits for a subprocess (ibus, nmcli)
Stallable == {"ibus", "network"}

\* a thread that calls its closure without waiting for the previous call
FreeAlways(s) == TRUE

\* the thread of s calls the closure again only after it returned
Free(s) == inflight[s] = 0

\* one loop for all sources: no closure is called while another one runs
CanBeginInTurn(s) ==
    /\ ~aborted /\ status[s] = "ready" /\ due[s] <= clock
    /\ \A t \in Timed : inflight[t] = 0

\* the sleep of source s has ended and its thread is free
CanBegin(s) ==
    ~aborted /\ status[s] = "ready" /\ due[s] <= clock /\ Free(s)

Running(s) == ~aborted /\ status[s] = "ready" /\ inflight[s] > 0

\* the sleep of source s ended: its thread calls the closure
Begin ==
    /\ \E s \in Timed :
         /\ CanBegin(s)
         /\ inflight' = [inflight EXCEPT ![s] = @ + 1]
         /\ polls' = [polls EXCEPT ![s] = @ + 1]
    /\ UNCHANGED <<deviceVars, batteryVars, mixerVars, seg, status, last,
                   aborted, ticks, clock, due, queue, renderers, composed,
                   line>>

\* The closure of s ended in `out`: the Segment is stored, a render is
\* requested and the thread sleeps its interval; a panic ends the thread.
Finish(s, out) ==
    /\ Running(s)
    /\ inflight' = [inflight EXCEPT ![s] = @ - 1]
    /\ IF out.panic
       THEN PanicIn(s) /\ UNCHANGED <<seg, due, queue>>
       ELSE /\ seg' = [seg EXCEPT ![s] = out.seg]
            /\ due' = [due EXCEPT ![s] = clock + Interval(s)]
            /\ queue' = queue + 1
            /\ UNCHANGED <<status, aborted>>
    /\ UNCHANGED <<deviceVars, mixerVars, hist, last, ticks, clock, polls,
                   renderers, composed, line>>

FinishIbus ==
    /\ \E output \in IbusResults : Finish("ibus", IbusClosure(output))
    /\ UNCHANGED <<battery_warned, notifications>>

FinishDisk ==
    /\ \E fs \in DiskResults : Finish("disk", DiskClosure(fs))
    /\ UNCHANGED <<battery_warned, notifications>>

FinishLoad ==
    /\ \E load \in LoadResults : Finish("load", LoadClosure(load))
    /\ UNCHANGED <<battery_warned, notifications>>

FinishBattery ==
    \E ac \in AcResults, battery \in BatteryResults, showOk \in BOOLEAN :
        LET end == BatteryClosure(ac, battery, showOk, battery_warned)
        IN  /\ Finish("battery", [panic |-> end.panic, seg |-> end.seg])
            /\ battery_warned' = end.warned
            /\ notifications' = notifications \o end.shown

\* the subprocess a closure waits for never exits
Stall ==
    /\ \E s \in Stallable \cap Timed :
         /\ Running(s)
         /\ status' = [status EXCEPT ![s] = "stalled"]
    /\ UNCHANGED <<deviceVars, batteryVars, mixerVars, seg, last, aborted,
                   ticks, schedVars>>

\* renders that do not wait for each other
RenderFreeAlways == TRUE

\* the render lock is free
RenderFree == renderers = 0

\* a line that leaves out the widgets whose Segment has no text
ComposeNonEmpty ==
    SelectSeq([i \in 1..Len(Widgets) |->
                  [src |-> Widgets[i], seg |-> seg[Widgets[i]]]],
              LAMBDA e : e.seg.text # "")

\* the line: the current Segment of every widget, in the order of Widgets
Compose ==
    [i \in 1..Len(Widgets) |-> [src |-> Widgets[i], seg |-> seg[Widgets[i]]]]

\* a render request is received: the line is composed
BeginRender ==
    /\ ~aborted
    /\ queue > 0
    /\ RenderFree
    /\ queue' = queue - 1
    /\ renderers' = renderers + 1
    /\ composed' = Compose
    /\ UNCHANGED <<deviceVars, batteryVars, mixerVars, seg, status, last,
                   aborted, ticks, clock, due, inflight, polls, line>>

\* the composed line is written to standard output
EndRender ==
    /\ ~aborted
    /\ renderers > 0
    /\ line' = composed
    /\ renderers' = renderers - 1
    /\ UNCHANGED <<deviceVars, batteryVars, mixerVars, seg, status, last,
                   aborted, ticks, clock, due, inflight, polls, queue,
                   composed>>

\* a click on device_menu arrives: its operation starts, outside the render
\* lock, and waits for the picker
ClickStart ==
    /\ ~aborted
    /\ status["dispatch"] = "ready"
    /\ status' = [status EXCEPT !["dispatch"] = "running"]
    /\ last' = LastCall("device_menu", "ok")
    /\ UNCHANGED <<deviceVars, batteryVars, mixerVars, seg, aborted, ticks,
                   schedVars>>

\* the operation of the click returns
ClickEnd ==
    /\ ~aborted
    /\ status["dispatch"] = "running"
    /\ status' = [status EXCEPT !["dispatch"] = "ready"]
    /\ UNCHANGED <<deviceVars, batteryVars, mixerVars, seg, last, aborted,
                   ticks, schedVars>>

\* a second passes, once every thread that can run has run
Advance ==
    /\ ~aborted
    /\ clock < MaxTime
    /\ \A s \in Timed : ~CanBegin(s) /\ ~Running(s)
    /\ queue = 0
    /\ renderers = 0
    /\ clock' = clock + 1
    /\ UNCHANGED <<deviceVars, batteryVars, mixerVars, seg, status, last,
                   aborted, ticks, due, inflight, polls, queue, renderers,
                   composed, line>>

(***************************************************************************)
(* Specifications                                                          *)
(***************************************************************************)
NoLast == [kind |-> "none", src |-> "none", failed |-> FALSE, err |-> "",
           panic |-> FALSE, out |-> EmptySegment]

Mixer(range, fl, fr, sl, sr) ==
    [min |-> range[1], max |-> range[2],
     vol |-> [c \in Channels |-> IF c = "FrontLeft" THEN fl ELSE fr],
     sw |-> [c \in Channels |-> IF c = "FrontLeft" THEN sl ELSE sr]]

\* volumes a channel starts at: the ends and the middle of the range
StartVolumes(range) == {range[1], (range[1] + range[2]) \div 2, range[2]}

InitBar ==
    /\ battery_warned = FALSE
    /\ notifications = <<>>
    /\ hist = <<>>
    /\ seg = [s \in Sources |-> IF s = "flair" THEN FlairSegment
                                                ELSE EmptySegment]
    /\ status = [t \in Threads |-> "ready"]
    /\ last = NoLast
    /\ aborted = FALSE
    /\ ticks = 0
    /\ oplog = <<>>
    /\ devlog = <<>>
    /\ clock = 0
    /\ due = [s \in Timed |-> Interval(s)]
    /\ inflight = [s \in Timed |-> 0]
    /\ polls = [s \in Timed |-> 0]
    /\ queue = 0
    /\ renderers = 0
    /\ composed = <<>>
    /\ line = <<>>

\* the sound server with the given active streams, all on the default device
Sinks(apps) ==
    [default |-> "alsa_speakers", apps |-> apps,
     streams |-> [a \in AppIds |-> "alsa_speakers"]]

\* the bar: the spec's mixer example, range [0,65536] at volume 32768
Init ==
    /\ InitBar
    /\ mixer = Mixer(<<0, 65536>>, 32768, 32768, 1, 1)
    /\ sinks = Sinks(<<"app1", "app2">>)

Next ==
    \/ PollMusic
    \/ PollVolume
    \/ PollIbus
    \/ PollDisk
    \/ PollNetwork
    \/ PollLoad
    \/ PollMemory
    \/ PollTemperature
    \/ PollBattery
    \/ PollBacklight
    \/ DispatchMusic
    \/ DispatchVolume
    \/ DispatchMute
    \/ DispatchBacklight

Spec == Init /\ [][Next]_vars

\* the volume module on its own, from any mixer state
InitVolume ==
    /\ InitBar
    /\ \E range \in Ranges :
         \E fl \in StartVolumes(range), fr \in StartVolumes(range) :
           \E sl \in 0..1, sr \in 0..1 :
             mixer = Mixer(range, fl, fr, sl, sr)
    /\ sinks = Sinks(<<"app1", "app2">>)

NextVolume ==
    \/ CallAdd
    \/ CallMute

SpecVolume == InitVolume /\ [][NextVolume]_vars

\* the device picker on its own: a click on device_menu
InitDevice ==
    /\ InitBar
    /\ mixer = Mixer(<<0, 65536>>, 32768, 32768, 1, 1)
    /\ \E apps \in {<<>>, <<"app1">>, <<"app1", "app2">>} : sinks = Sinks(apps)

NextDevice == DispatchMenu

SpecDevice == InitDevice /\ [][NextDevice]_vars

\* the scheduler on its own: timed polls, renders and clicks
NextSched ==
    \/ Begin
    \/ FinishIbus
    \/ FinishDisk
    \/ FinishLoad
    \/ FinishBattery
    \/ Stall
    \/ BeginRender
    \/ EndRender
    \/ ClickStart
    \/ ClickEnd
    \/ Advance

SpecSched == Init /\ [][NextSched]_vars

(***************************************************************************)
(* Properties                                                              *)
(***************************************************************************)
HistIdx == 1..Len(hist)

\* C1: the low-battery notification is dispatched exactly once per maximal
\* run of polls whose alert condition is true: on the first poll of the run
\* and on no other poll.
C1_OncePerRun ==
    \A i \in HistIdx :
        hist[i].notified <=> (hist[i].cond /\ (i = 1 \/ ~hist[i - 1].cond))

\* C2: the flag starts false and every poll follows the transition table:
\* the flag afterwards equals the condition, and a notification is shown
\* exactly when the poll finds the flag false and the condition true.
C2_TransitionTable ==
    /\ hist = <<>> => battery_warned = FALSE
    /\ \A i \in HistIdx :
         /\ i = 1 => hist[i].before = FALSE
         /\ hist[i].after = hist[i].cond
         /\ hist[i].notified = (~hist[i].before /\ hist[i].cond)

\* C3: a poll whose probe fails does not end the process and leaves every
\* other thread as it was.
C3_FailureConfined ==
    [][(last'.kind = "poll" /\ last'.failed /\ ticks' = ticks + 1)
          => (~aborted' /\ \A t \in Threads \ {last'.src} :
                               status'[t] = status[t])]_vars

\* C4 as stated: after a failed poll nothing has propagated and the stored
\* Segment carries the error's message as text, an error colour and no
\* click bindings.
C4_ErrorSegment ==
    (last.kind = "poll" /\ last.failed)
        => /\ ~last.panic
           /\ seg[last.src].text = last.err
           /\ seg[last.src].fg # NoColor
           /\ seg[last.src].clicks = {}

\* C4 as amended: a Segment a closure returns is stored unchanged; a failed
\* poll of ibus or battery stores the empty Segment, of backlight the empty
\* Segment (NotFound) or "ERROR: " and the message in the default colour, of
\* network a Segment without click bindings in one of its two colours; a
\* failed probe of disk, load, memory or temperature panics.
C4_FailureSegments ==
    last.kind = "poll" =>
        LET s == last.src
        IN  /\ ~last.panic => seg[s] = last.out
            /\ last.failed =>
                 CASE s \in {"ibus", "battery"} ->
                        ~last.panic /\ seg[s] = EmptySegment
                   [] s = "backlight" ->
                        /\ ~last.panic
                        /\ seg[s] = IF last.err = "NotFound"
                                    THEN EmptySegment
                                    ELSE Segment("ERROR: " \o last.err, NoColor, {})
                   [] s = "network" ->
                        /\ ~last.panic
                        /\ seg[s].clicks = {}
                        /\ seg[s].fg \in {"#BB5555", "#99ee99"}
                   [] OTHER ->
                        last.panic /\ status[s] = "panicked"

C4_Witness ==
    /\ last.kind = "poll"
    /\ last.src = "backlight"
    /\ last.failed
    /\ seg["backlight"].text = "ERROR: Permission denied"

\* C5: after a failed poll the source's thread is still there to poll it
\* again at its next tick.
C5_RetriedAfterFailure ==
    (last.kind = "poll" /\ last.failed)
        => (~aborted /\ status[last.src] = "ready")

\* C6: a click action whose operation fails returns normally: no panic, the
\* dispatching thread and the process go on.
C6_ActionFailureSwallowed ==
    (last.kind = "click" /\ last.failed)
        => (~last.panic /\ ~aborted /\ status["dispatch"] = "ready")

\* C7: a battery poll that finds the flag false and the condition true ends
\* with the flag true and a Segment returned even when showing the
\* notification fails.
C7_SinkFailureBestEffort ==
    \A i \in HistIdx :
        (hist[i].cond /\ ~hist[i].before /\ ~hist[i].showOk)
            => (hist[i].after /\ ~hist[i].panic)

OpIdx == 1..Len(oplog)

AddsOk == {i \in OpIdx : oplog[i].op = "add" /\ oplog[i].res = "ok"}

\* C8 as stated: add writes clamp(current + round(diff * (max-min) / 100))
\* to all channels.
C8_WritesExactRound ==
    \A i \in AddsOk :
        LET b == oplog[i].before
            n == oplog[i].diff * (b.max - b.min)
            e == b.vol["FrontLeft"] + RoundHalfAway(n, 100)
            w == IF e < b.min THEN b.min ELSE IF e > b.max THEN b.max ELSE e
        IN  \A c \in Channels : oplog[i].after.vol[c] = w

\* C8 as amended: add writes to all channels one value w within [min,max],
\* w = clamp(current + r) for an integer r at most one half away from
\* diff * (max-min) / 100; add(+100) at max and a negative diff at min write
\* the current value.
C8_WritesNearestClamped ==
    \A i \in AddsOk :
        LET b == oplog[i].before
            d == oplog[i].diff
            n == d * (b.max - b.min)
            cur == b.vol["FrontLeft"]
            w == oplog[i].after.vol["FrontLeft"]
        IN  /\ \A c \in Channels : oplog[i].after.vol[c] = w
            /\ b.min <= w /\ w <= b.max
            /\ oplog[i].after.min = b.min /\ oplog[i].after.max = b.max
            /\ \E r \in ((n \div 100) - 1)..((n \div 100) + 1) :
                 /\ 100 * r - n <= 50
                 /\ n - 100 * r <= 50
                 /\ w = IF cur + r < b.min THEN b.min
                        ELSE IF cur + r > b.max THEN b.max ELSE cur + r
            /\ (d = 100 /\ cur = b.max) => w = cur
            /\ (d < 0 /\ cur = b.min) => w = cur

C8_Witness ==
    \E i \in AddsOk :
        /\ oplog[i].diff = 100
        /\ oplog[i].before.vol["FrontLeft"] = oplog[i].before.max
        /\ oplog[i].before.vol["FrontRight"] = oplog[i].before.max
        /\ oplog[i].after = oplog[i].before

\* C9: add(d) directly followed by add(-d), neither clamped, writes the
\* volume add(d) started from.
C9_RoundTripRestores ==
    \A i \in OpIdx :
        (i \in AddsOk /\ i + 1 \in AddsOk) =>
            LET b == oplog[i].before
                cur == b.vol["FrontLeft"]
                mid == cur + StepDelta(b.max - b.min, oplog[i].diff)
            IN  (/\ oplog[i + 1].diff = -oplog[i].diff
                 /\ b.min <= mid /\ mid <= b.max)
                    => \A c \in Channels : oplog[i + 1].after.vol[c] = cur

C9_Witness ==
    /\ Len(oplog) = 2
    /\ 1 \in AddsOk /\ 2 \in AddsOk
    /\ oplog[1].diff = 5 /\ oplog[2].diff = -5
    /\ oplog[1].before.max - oplog[1].before.min = 65536
    /\ oplog[1].before.vol["FrontLeft"] = 32768
    /\ oplog[1].after.vol["FrontLeft"] = 36045
    /\ oplog[2].after.vol["FrontLeft"] = 32768

MutePairs ==
    {i \in OpIdx : /\ i + 1 \in OpIdx
                   /\ oplog[i].op = "mute" /\ oplog[i].res = "ok"
                   /\ oplog[i + 1].op = "mute" /\ oplog[i + 1].res = "ok"}

\* C10 as stated: two mutes in succession return every channel's switch to
\* its original state, whatever the initial switches.
C10_MuteTwiceRestoresAll ==
    \A i \in MutePairs : oplog[i + 1].after.sw = oplog[i].before.sw

\* C10 as amended: two mutes in succession leave every channel's switch at
\* the front-left channel's original state, which is the original state of
\* every channel when the channels agreed initially.
C10_MuteTwiceRestoresFrontLeft ==
    \A i \in MutePairs :
        LET sw0 == oplog[i].before.sw
        IN  /\ \A c \in Channels :
                 /\ oplog[i].after.sw[c] # sw0["FrontLeft"]
                 /\ oplog[i + 1].after.sw[c] = sw0["FrontLeft"]
            /\ (\A c \in Channels : sw0[c] = sw0["FrontLeft"])
                 => oplog[i + 1].after.sw = sw0

C10_Witness ==
    \E i \in MutePairs :
        /\ \A c \in Channels : oplog[i].before.sw[c] = 1
        /\ \A c \in Channels : oplog[i].after.sw[c] = 0
        /\ oplog[i + 1].after.sw = oplog[i].before.sw

MenuIdx == 1..Len(devlog)

Range(q) == {q[k] : k \in 1..Len(q)}

\* C11: set_device attempts the reassignment of every active stream whatever
\* the default-device call, the earlier reassignments and their
\* notifications did; each failure is non-fatal and shows one notification.
C11_EveryStreamAttempted ==
    \A i \in MenuIdx :
        LET e == devlog[i]
        IN  (e.env.fault = "none" /\ e.end.setCalls # <<>>)
                => /\ e.end.attempted = Range(e.before.apps)
                   /\ e.end.res = "ok"
                   /\ Len(e.end.shown) = e.end.failures

Blank(output) == \A k \in 1..Len(output) : output[k] \in Whitespace

\* the output between its first and its last non-whitespace token
Selection(output) ==
    LET words == {k \in 1..Len(output) : output[k] \notin Whitespace}
        first == CHOOSE k \in words : \A j \in words : k <= j
        final == CHOOSE k \in words : \A j \in words : j <= k
    IN  Concat(SubSeq(output, first, final))

\* C12: a menu call whose system calls succeed spawns the picker once and
\* feeds it the name and description of every listed device; on an output
\* that is blank it does not call set_device, leaves the default device and
\* the streams alone and returns Ok; on any other output it calls
\* set_device once, with the output trimmed.
C12_MenuSelects ==
    \A i \in MenuIdx :
        LET e == devlog[i]
        IN  /\ e.end.spawns <= 1
            /\ e.env.fault \in {"none", "list_devices", "list_applications"}
                 => /\ e.end.spawns = 1
                    /\ Len(e.end.fed) = 2 * Len(e.end.listed)
                    /\ \A k \in 1..Len(e.end.listed) :
                          /\ e.end.fed[2 * k - 1] = e.end.listed[k].name
                          /\ e.end.fed[2 * k] = e.end.listed[k].description
                    /\ IF Blank(e.env.output)
                       THEN /\ e.end.setCalls = <<>>
                            /\ e.end.sinks = e.before
                            /\ e.end.res = "ok"
                       ELSE e.end.setCalls = <<Selection(e.env.output)>>

C12_Witness ==
    \E i \in MenuIdx :
        /\ devlog[i].env.fault = "none"
        /\ devlog[i].env.output = <<" ", "alsa_speakers", "\n">>
        /\ devlog[i].end.setCalls = <<"alsa_speakers">>
        /\ devlog[i].end.spawns = 1
        /\ Len(devlog[i].end.fed) = 4

\* C13: every line written lists one Segment per widget, in the order
\* music, volume, ibus, disk, network, load, memory, temperature, battery,
\* backlight, clock, flair; once no render is pending or in progress they
\* are the current Segments.
C13_RegistrationOrder ==
    LET order == <<"music", "volume", "ibus", "disk", "network", "load",
                   "memory", "temperature", "battery", "backlight", "clock",
                   "flair">>
    IN  line # <<>> =>
          /\ Len(line) = 12
          /\ \A i \in 1..12 : line[i].src = order[i]
          /\ (queue = 0 /\ renderers = 0) =>
                \A i \in 1..12 : line[i].seg = seg[order[i]]

C13_Witness ==
    /\ Len(line) = 12
    /\ line[3].seg # EmptySegment
    /\ line[4].seg # EmptySegment
    /\ line[6].seg # EmptySegment
    /\ line[12].seg = FlairSegment
    /\ polls["ibus"] > polls["disk"]

\* the place of source s in the line
Place(s) == CHOOSE i \in 1..Len(Widgets) : Widgets[i] = s

\* C14: while the closure of one source is stalled, every other source
\* whose thread runs is polled once per interval (at second c it has been
\* polled c / interval times, one less while the poll of second c has not
\* begun) and its stored Segment is in the line once the renders are done.
C14_StallDelaysOnlyItself ==
    \A t \in Timed :
        status[t] = "stalled" =>
            \A s \in Timed \ {t} :
                (status[s] = "ready" /\ ~aborted) =>
                    /\ polls[s] <= clock \div Interval(s)
                    /\ polls[s] >= (clock \div Interval(s)) - 1
                    /\ due[s] > clock => polls[s] = clock \div Interval(s)
                    /\ (polls[s] > 0 /\ inflight[s] = 0 /\ queue = 0
                          /\ renderers = 0)
                         => /\ line # <<>>
                            /\ line[Place(s)].seg = seg[s]

C14_Witness ==
    /\ status["ibus"] = "stalled"
    /\ polls["ibus"] = 1
    /\ clock = 4
    /\ status["load"] = "ready" /\ polls["load"] = 4
    /\ status["disk"] = "ready" /\ polls["disk"] = 2
    /\ queue = 0 /\ renderers = 0
    /\ line # <<>> /\ line[Place("load")].seg # EmptySegment

\* C15: at most one render is between composing and writing, every line
\* written is the whole line that render composed, and a click whose
\* operation starts or runs does not take the render lock.
C15_RenderExclusive ==
    /\ [](renderers <= 1)
    /\ [](line # <<>> => Len(line) = Len(Widgets))
    /\ [][line' # line => (renderers = 1 /\ line' = composed)]_vars
    /\ [][status'["dispatch"] # status["dispatch"]
            => (renderers' = renderers /\ queue' = queue)]_vars

C15_Witness ==
    /\ renderers = 1
    /\ queue > 0
    /\ status["dispatch"] = "running"
    /\ line # <<>>
    /\ composed # line

\* C16: no source has two closure calls in progress, whatever the other
\* sources do, and battery_warned changes only in a step that ends a
\* battery poll.
C16_OnePollPerSource ==
    /\ [](\A s \in Timed : inflight[s] <= 1)
    /\ [][battery_warned' # battery_warned
            => (inflight["battery"] = 1 /\ inflight'["battery"] = 0)]_vars

C16_Witness ==
    /\ polls["battery"] >= 2
    /\ inflight["battery"] = 1
    /\ inflight["ibus"] = 1
    /\ inflight["disk"] = 1

\* C17: the volume an add writes is at least what a smaller diff would have
\* written from the same mixer and at most what a larger diff would have
\* written; an add with diff >= 0 when the volume is max writes max, and an
\* add with diff <= 0 when the volume is min writes min.
C17_MonotonicAndIdempotent ==
    \A i \in AddsOk :
        LET b == oplog[i].before
            d == oplog[i].diff
            cur == b.vol["FrontLeft"]
            w == oplog[i].after.vol["FrontLeft"]
            other(x) == add(b, x, "none", "volume.rs").mixer.vol["FrontLeft"]
        IN  /\ \A x \in Diffs : (x <= d => other(x) <= w)
                                 /\ (d <= x => w <= other(x))
            /\ (cur = b.max /\ d >= 0)
                 => \A c \in Channels : oplog[i].after.vol[c] = b.max
            /\ (cur = b.min /\ d <= 0)
                 => \A c \in Channels : oplog[i].after.vol[c] = b.min

C17_Witness ==
    /\ Len(oplog) = 2
    /\ 1 \in AddsOk /\ 2 \in AddsOk
    /\ oplog[1].diff = 100 /\ oplog[2].diff = 5
    /\ oplog[1].before.max = 29
    /\ oplog[1].before.vol["FrontLeft"] = 14
    /\ oplog[1].after.vol["FrontLeft"] = 29
    /\ oplog[2].after.vol["FrontLeft"] = 29

\* C18: after a battery poll whose two probes succeed the flag equals the
\* alert condition of that poll.
C18_FlagEqualsCondition ==
    \A i \in HistIdx : hist[i].after = hist[i].cond

\* C19: a battery poll whose AC or battery probe fails returns and stores
\* the empty Segment, shows no notification and leaves battery_warned as it
\* was.
C19_ProbeFailureInert ==
    [][(ticks' # ticks /\ last'.kind = "poll" /\ last'.src = "battery"
          /\ last'.failed)
        => /\ ~last'.panic
           /\ last'.out = EmptySegment
           /\ seg'["battery"] = EmptySegment
           /\ notifications' = notifications
           /\ battery_warned' = battery_warned
           /\ hist' = hist]_vars

C19_Witness ==
    /\ last.kind = "poll" /\ last.src = "battery" /\ last.failed
    /\ ~last.panic
    /\ seg["battery"] = EmptySegment
    /\ status["battery"] = "ready"
    /\ notifications = <<>>
    /\ ticks >= 2

\* C20: every action name in a click binding of a stored Segment is
\* registered, the names bound are the nine registered ones, and no name is
\* registered twice.
C20_ClicksRegistered ==
    LET names == {"mus_prev", "mus_toggle", "mus_next", "vol_down", "vol_up",
                  "vol_mute", "device_menu", "bright_up", "bright_down"}
        bound == {c[2] : c \in UNION {seg[s].clicks : s \in DOMAIN seg}}
    IN  /\ \A n \in bound : \E i \in 1..Len(Registered) : Registered[i] = n
        /\ bound \subseteq names
        /\ \A n \in names : \E i \in 1..Len(Registered) : Registered[i] = n
        /\ \A i, j \in 1..Len(Registered) :
              Registered[i] = Registered[j] => i = j

C20_Witness ==
    /\ seg["music"].clicks = MusicClicks
    /\ seg["volume"].clicks = VolumeClicks
    /\ seg["backlight"].clicks = BacklightClicks

====
